---------------------------- MODULE Spec2Model ----------------------------
(* A model of the video-script compiler front end: the scanner of          *)
(* src/Scanner.h (tokenize, TimePosition) and the parser of src/Parser.h   *)
(* (Value, Parser::evaluate, the statement productions, parseProgram,      *)
(* parseAndExecute and translateToPython).                                 *)
(*                                                                         *)
(* Texts are sequences of one-character strings. Indices into the source   *)
(* are 0-based as in the code: At(k) is source[k].                         *)
EXTENDS Integers, Sequences, FiniteSets, TLC

VARIABLES
    source,         \* tokenize: the text being scanned
    i,              \* tokenize: size_t i
    currentLine,    \* tokenize: int currentLine
    charPosInLine,  \* tokenize: int charPosInLine
    tokens,         \* tokenize: std::vector<Token> tokens
    errors,         \* tokenize: std::vector<ScannerError>& errors
    pc,             \* tokenize: the loop the scanner is in
    word,           \* tokenize: the local word / str / num being collected
    startPos,       \* tokenize: int startPos
    startLine,      \* tokenize: int startLine
    time,           \* TimePosition under test: a value, or the thrown state
    timeOps,        \* number of TimePosition operations applied so far
    timeCall,       \* the last TimePosition call: its name and arguments
    expr,           \* Parser::evaluate: const std::vector<Token>& expr
    variables,      \* Parser: std::unordered_map<std::string, Value> variables
    result,         \* Parser::evaluate: Value result
    ei,             \* Parser::evaluate: size_t i of the fold loop
    perrors,        \* Parser: std::vector<ScannerError> errors
    evalPc,         \* Parser::evaluate: position in the function
    pos,            \* Parser: size_t pos
    root,           \* Parser::parseProgram: root.statements
    pyOut,          \* Parser::parseAndExecute: what is written to pyOut
    oob,            \* Parser: tokens[pos] was read with pos >= tokens.size()
    parsePc         \* Parser::parseAndExecute: position in the function

lexVars == <<source, i, currentLine, charPosInLine, tokens, errors, pc, word,
             startPos, startLine>>
timeVars == <<time, timeOps, timeCall>>
evalVars == <<expr, variables, result, ei, perrors, evalPc>>
parseVars == <<pos, root, pyOut, oob, parsePc>>
vars == <<lexVars, timeVars, evalVars, parseVars>>

---------------------------------------------------------------------------
(* Bounds of the model.                                                    *)

\* longest text over the whole alphabet
MaxLen == 3
\* longest text after the opening ## of a block comment
MaxComment == 4
\* longest body of a quoted literal
MaxBody == 4
\* most TimePosition operations applied in a row
MaxTimeOps == 3
\* most atoms of an expression handed to evaluate
MaxAtoms == 3

---------------------------------------------------------------------------
(* Characters and <cctype>.                                                *)

NL == "\n"
QUOTE == "\""

IsSpace(c) == c \in {" ", "\t", "\r", "\f", NL}
IsDigit(c) == c \in {"0", "1", "2", "3", "4", "5", "6", "7", "8", "9"}
IsAlpha(c) ==
    c \in {"a", "b", "c", "d", "e", "f", "g", "h", "i", "j", "k", "l", "m",
           "n", "o", "p", "q", "r", "s", "t", "u", "v", "w", "x", "y", "z",
           "A", "B", "C", "D", "E", "F", "G", "H", "I", "J", "K", "L", "M",
           "N", "O", "P", "Q", "R", "S", "T", "U", "V", "W", "X", "Y", "Z"}
IsAlnum(c) == IsAlpha(c) \/ IsDigit(c)

DigitVal(c) ==
    CASE c = "0" -> 0 [] c = "1" -> 1 [] c = "2" -> 2 [] c = "3" -> 3
      [] c = "4" -> 4 [] c = "5" -> 5 [] c = "6" -> 6 [] c = "7" -> 7
      [] c = "8" -> 8 [] c = "9" -> 9

SeqsUpTo(S, n) == UNION {[1..k -> S] : k \in 0..n}

\* s.find(c): the 1-based index of the first c in s, 0 for npos
Find(s, c) ==
    IF \E k \in 1..Len(s) : s[k] = c
    THEN CHOOSE k \in 1..Len(s) : s[k] = c /\ \A j \in 1..(k-1) : s[j] # c
    ELSE 0

---------------------------------------------------------------------------
(* int: 32 bits.                                                           *)

IntMax == 2147483647
IntMin == -2147483647 - 1

\* What an out-of-range double-to-int conversion or a signed overflow may
\* leave in an int (undefined behaviour): the saturated and wrapped values.
UBInts == {IntMin, 0, IntMax}

---------------------------------------------------------------------------
(* std::stoi, base 10: skips leading white space, takes an optional sign   *)
(* and the longest run of digits, ignores what follows. Throws             *)
(* invalid_argument without any digit and out_of_range outside int.        *)

RECURSIVE SkipSpace(_, _)
SkipSpace(s, k) ==
    IF k <= Len(s) /\ IsSpace(s[k]) THEN SkipSpace(s, k + 1) ELSE k

\* accumulates the digits from s[k] on; neg: towards IntMin
RECURSIVE StoiDigits(_, _, _, _)
StoiDigits(s, k, acc, neg) ==
    IF k > Len(s) \/ ~IsDigit(s[k]) THEN [ok |-> TRUE, val |-> acc]
    ELSE LET d == DigitVal(s[k]) IN
         IF neg
         THEN IF acc < -214748364 \/ (acc = -214748364 /\ d > 8)
              THEN [ok |-> FALSE, val |-> 0]
              ELSE StoiDigits(s, k + 1, acc * 10 - d, neg)
         ELSE IF acc > 214748364 \/ (acc = 214748364 /\ d > 7)
              THEN [ok |-> FALSE, val |-> 0]
              ELSE StoiDigits(s, k + 1, acc * 10 + d, neg)

Stoi(s) ==
    LET k0 == SkipSpace(s, 1)
        signed == k0 <= Len(s) /\ s[k0] \in {"+", "-"}
        neg == signed /\ s[k0] = "-"
        k1 == IF signed THEN k0 + 1 ELSE k0
    IN  IF k1 > Len(s) \/ ~IsDigit(s[k1])
        THEN [ok |-> FALSE, val |-> 0]
        ELSE StoiDigits(s, k1, 0, neg)

---------------------------------------------------------------------------
(* struct TimePosition. A constructor or operator returns                  *)
(* [ok |-> TRUE, minutes, seconds], or [ok |-> FALSE, ...] when it throws. *)
(* ub is the int an undefined conversion or overflow leaves behind.        *)

Thrown == [ok |-> FALSE, minutes |-> 0, seconds |-> 0]

\* normalize without its check for negative fields
NormalizeNoThrow(minutes, seconds, ub) ==
    LET carried == seconds >= 60
        m == IF carried
             THEN IF minutes > IntMax - (seconds \div 60) THEN ub
                  ELSE minutes + (seconds \div 60)
             ELSE minutes
        s == IF carried THEN seconds % 60 ELSE seconds
    IN  [ok |-> TRUE, minutes |-> m, seconds |-> s]

\* normalize that carries into minutes and leaves seconds as they were
NormalizeNoModulo(minutes, seconds, ub) ==
    LET carried == seconds >= 60
        m == IF carried
             THEN IF minutes > IntMax - (seconds \div 60) THEN ub
                  ELSE minutes + (seconds \div 60)
             ELSE minutes
    IN  IF m < 0 \/ seconds < 0 THEN Thrown
        ELSE [ok |-> TRUE, minutes |-> m, seconds |-> seconds]

normalize(minutes, seconds, ub) ==
    LET carried == seconds >= 60
        m == IF carried
             THEN IF minutes > IntMax - (seconds \div 60) THEN ub
                  ELSE minutes + (seconds \div 60)
             ELSE minutes
        s == IF carried THEN seconds % 60 ELSE seconds
    IN  IF m < 0 \/ s < 0 THEN Thrown
        ELSE [ok |-> TRUE, minutes |-> m, seconds |-> s]

TimePosition(min, seg, ub) == normalize(min, seg, ub)

TimePositionStr(timeStr, ub) ==
    LET colonPos == Find(timeStr, ":") IN
    IF colonPos = 0 THEN Thrown
    ELSE LET m == Stoi(SubSeq(timeStr, 1, colonPos - 1))
             s == Stoi(SubSeq(timeStr, colonPos + 1, Len(timeStr)))
         IN  IF ~m.ok \/ ~s.ok THEN Thrown
             ELSE normalize(m.val, s.val, ub)

\* minutes * 60.0 + seconds is a double: whether it is still an int
SecondsFit(t) == t.minutes <= (IntMax - t.seconds) \div 60
toSeconds(t) == t.minutes * 60 + t.seconds

\* the double d passed for the int parameter min of TimePosition(int, int)
TimePlus(a, b, ub) ==
    IF SecondsFit(a) /\ SecondsFit(b) /\ toSeconds(a) <= IntMax - toSeconds(b)
    THEN TimePosition(toSeconds(a) + toSeconds(b), 0, ub)
    ELSE TimePosition(ub, 0, ub)

Abs(n) == IF n < 0 THEN -n ELSE n

TimeTimes(a, n, ub) ==
    IF n = 0 THEN TimePosition(0, 0, ub)
    ELSE IF n # IntMin /\ SecondsFit(a) /\ toSeconds(a) <= IntMax \div Abs(n)
    THEN TimePosition(toSeconds(a) * n, 0, ub)
    ELSE TimePosition(ub, 0, ub)

TimeEquals(a, b) ==
    IF SecondsFit(a) /\ SecondsFit(b) THEN toSeconds(a) = toSeconds(b)
    ELSE a.minutes = b.minutes /\ a.seconds = b.seconds

RECURSIVE DigitsOf(_)
DigitsOf(n) ==
    LET d == <<"0", "1", "2", "3", "4", "5", "6", "7", "8", "9">> IN
    IF n < 10 THEN <<d[n + 1]>> ELSE DigitsOf(n \div 10) \o <<d[(n % 10) + 1]>>

\* toString with its two fields in the wrong order
ToStringSwapped(t) ==
    DigitsOf(t.seconds) \o <<":">>
        \o (IF t.minutes < 10 THEN <<"0">> ELSE <<>>) \o DigitsOf(t.minutes)

toString(t) ==
    DigitsOf(t.minutes) \o <<":">>
        \o (IF t.seconds < 10 THEN <<"0">> ELSE <<>>) \o DigitsOf(t.seconds)

---------------------------------------------------------------------------
(* struct Token, struct ScannerError.                                      *)

Token(type, value, line, charPos) ==
    [type |-> type, value |-> value, line |-> line, charPos |-> charPos]

ScannerError(line, charPos, type, message) ==
    [line |-> line, charPos |-> charPos, type |-> type, message |-> message]

---------------------------------------------------------------------------
(* tokenize. One action per branch of the scan loop and one per iteration  *)
(* of each inner loop; pc names the loop the scanner is in.                *)

At(k) == source[k + 1]

\* the if / else-if chain on the collected word
WordType(w) ==
    IF w = <<"p", "r", "i", "n", "t">> THEN "PRINT_KEY"
    ELSE IF w = <<"l", "e", "t">> THEN "LET"
    ELSE IF w = <<"i", "f">> THEN "IF"
    ELSE IF w = <<"t", "h", "e", "n">> THEN "THEN"
    ELSE IF w = <<"t", "o">> THEN "TO"
    ELSE IF w \in {<<"f", "r", "a", "m", "e">>, <<"c", "o", "n", "c", "a", "t">>,
                   <<"a", "u", "d", "i", "o">>, <<"p", "l", "a", "y">>}
         THEN "KEYWORD"
    ELSE "ID"

PunctType(c) ==
    CASE c = "+" -> "ADD_OP" [] c = "*" -> "MUL_OP" [] c = "(" -> "OPEN_PAR"
      [] c = ")" -> "CLOSE_PAR" [] c = ";" -> "SEMICOLON"

IsPunct(c) == c \in {"+", "*", "(", ")", ";"}

AtScan == pc = "scan" /\ i < Len(source)

ScanNewline ==
    /\ AtScan /\ At(i) = NL
    /\ currentLine' = currentLine + 1
    /\ charPosInLine' = 1
    /\ i' = i + 1
    /\ UNCHANGED <<source, tokens, errors, pc, word, startPos, startLine>>
    /\ UNCHANGED <<timeVars, evalVars, parseVars>>

ScanSpace ==
    /\ AtScan /\ At(i) # NL /\ IsSpace(At(i))
    /\ charPosInLine' = charPosInLine + 1
    /\ i' = i + 1
    /\ UNCHANGED <<source, currentLine, tokens, errors, pc, word, startPos,
                   startLine>>
    /\ UNCHANGED <<timeVars, evalVars, parseVars>>

ScanHash ==
    /\ AtScan /\ At(i) = "#"
    /\ IF i + 1 < Len(source) /\ At(i + 1) = "#"
       THEN i' = i + 2 /\ charPosInLine' = charPosInLine + 2 /\ pc' = "comment"
       ELSE i' = i + 1 /\ charPosInLine' = charPosInLine + 1 /\ pc' = "line"
    /\ UNCHANGED <<source, currentLine, tokens, errors, word, startPos,
                   startLine>>
    /\ UNCHANGED <<timeVars, evalVars, parseVars>>

\* while (i < source.length() - 1) { ... } if (!foundEnd) ...
CommentLoop ==
    /\ pc = "comment"
    /\ IF i < Len(source) - 1
       THEN LET line1 == IF At(i) = NL THEN currentLine + 1 ELSE currentLine
                pos1 == IF At(i) = NL THEN 1 ELSE charPosInLine + 1
            IN  /\ currentLine' = line1
                /\ IF At(i) = "#" /\ At(i + 1) = "#"
                   THEN i' = i + 2 /\ charPosInLine' = pos1 + 2 /\ pc' = "scan"
                   ELSE i' = i + 1 /\ charPosInLine' = pos1 /\ pc' = pc
                /\ errors' = errors
       ELSE /\ errors' = Append(errors,
                    ScannerError(currentLine, charPosInLine,
                                 "UnterminatedComment",
                                 <<"Unterminated multi-line comment">>))
            /\ pc' = "scan"
            /\ UNCHANGED <<i, currentLine, charPosInLine>>
    /\ UNCHANGED <<source, tokens, word, startPos, startLine>>
    /\ UNCHANGED <<timeVars, evalVars, parseVars>>

LineCommentLoop ==
    /\ pc = "line"
    /\ IF i < Len(source) /\ At(i) # NL
       THEN i' = i + 1 /\ charPosInLine' = charPosInLine + 1 /\ pc' = pc
       ELSE pc' = "scan" /\ UNCHANGED <<i, charPosInLine>>
    /\ UNCHANGED <<source, currentLine, tokens, errors, word, startPos,
                   startLine>>
    /\ UNCHANGED <<timeVars, evalVars, parseVars>>

ScanAlpha ==
    /\ AtScan /\ ~IsSpace(At(i)) /\ At(i) # "#" /\ IsAlpha(At(i))
    /\ word' = <<>>
    /\ startPos' = charPosInLine
    /\ pc' = "word"
    /\ UNCHANGED <<source, i, currentLine, charPosInLine, tokens, errors,
                   startLine>>
    /\ UNCHANGED <<timeVars, evalVars, parseVars>>

WordLoop ==
    /\ pc = "word"
    /\ IF i < Len(source) /\ IsAlnum(At(i))
       THEN /\ word' = Append(word, At(i))
            /\ i' = i + 1
            /\ charPosInLine' = charPosInLine + 1
            /\ UNCHANGED <<tokens, pc>>
       ELSE /\ tokens' = Append(tokens,
                    Token(WordType(word), word, currentLine, startPos))
            /\ pc' = "scan"
            /\ UNCHANGED <<word, i, charPosInLine>>
    /\ UNCHANGED <<source, currentLine, errors, startPos, startLine>>
    /\ UNCHANGED <<timeVars, evalVars, parseVars>>

ScanQuote ==
    /\ AtScan /\ At(i) = QUOTE
    /\ word' = <<>>
    /\ startPos' = charPosInLine
    /\ i' = i + 1
    /\ charPosInLine' = charPosInLine + 1
    /\ startLine' = currentLine
    /\ pc' = "string"
    /\ UNCHANGED <<source, currentLine, tokens, errors>>
    /\ UNCHANGED <<timeVars, evalVars, parseVars>>

\* what follows the closing quote: the literal str becomes a token or an error
StringResult(str, ub) ==
    IF Find(str, ":") # 0
    THEN IF TimePositionStr(str, ub).ok
         THEN [tok |-> <<Token("TIME", str, startLine, startPos)>>,
               err |-> <<>>]
         ELSE [tok |-> <<>>,
               err |-> <<ScannerError(startLine, startPos, "InvalidTime",
                                      <<"Invalid time format: ">> \o str)>>]
    ELSE IF str = <<>>
         THEN [tok |-> <<>>,
               err |-> <<ScannerError(startLine, startPos, "EmptyString",
                                      <<"Empty string literal">>)>>]
         ELSE [tok |-> <<Token("STRING", str, startLine, startPos)>>,
               err |-> <<>>]

StringLoop ==
    /\ pc = "string"
    /\ IF i < Len(source) /\ At(i) # QUOTE
       THEN /\ currentLine' = IF At(i) = NL THEN currentLine + 1 ELSE currentLine
            /\ charPosInLine' = IF At(i) = NL THEN 1 ELSE charPosInLine + 1
            /\ word' = Append(word, At(i))
            /\ i' = i + 1
            /\ UNCHANGED <<tokens, errors, pc>>
       ELSE IF i >= Len(source)
       THEN /\ errors' = Append(errors,
                    ScannerError(startLine, startPos, "UnclosedString",
                                 <<"Unclosed string literal">>))
            /\ pc' = "scan"
            /\ UNCHANGED <<currentLine, charPosInLine, word, i, tokens>>
       ELSE \E ub \in UBInts :
            /\ i' = i + 1
            /\ charPosInLine' = charPosInLine + 1
            /\ tokens' = tokens \o StringResult(word, ub).tok
            /\ errors' = errors \o StringResult(word, ub).err
            /\ pc' = "scan"
            /\ UNCHANGED <<currentLine, word>>
    /\ UNCHANGED <<source, startPos, startLine>>
    /\ UNCHANGED <<timeVars, evalVars, parseVars>>

ScanDigit ==
    /\ AtScan /\ IsDigit(At(i))
    /\ word' = <<>>
    /\ startPos' = charPosInLine
    /\ pc' = "digits"
    /\ UNCHANGED <<source, i, currentLine, charPosInLine, tokens, errors,
                   startLine>>
    /\ UNCHANGED <<timeVars, evalVars, parseVars>>

DigitLoop ==
    /\ pc = "digits"
    /\ IF i < Len(source) /\ IsDigit(At(i))
       THEN /\ word' = Append(word, At(i))
            /\ i' = i + 1
            /\ charPosInLine' = charPosInLine + 1
            /\ UNCHANGED <<tokens, pc>>
       ELSE /\ tokens' = Append(tokens, Token("INT", word, currentLine, startPos))
            /\ pc' = "scan"
            /\ UNCHANGED <<word, i, charPosInLine>>
    /\ UNCHANGED <<source, currentLine, errors, startPos, startLine>>
    /\ UNCHANGED <<timeVars, evalVars, parseVars>>

ScanAssign ==
    /\ AtScan /\ At(i) = "="
    /\ IF i + 1 < Len(source) /\ At(i + 1) = "="
       THEN /\ tokens' = Append(tokens,
                    Token("EQUALS", <<"=", "=">>, currentLine, charPosInLine))
            /\ i' = i + 2
            /\ charPosInLine' = charPosInLine + 2
       ELSE /\ tokens' = Append(tokens,
                    Token("ASSIGN_OP", <<"=">>, currentLine, charPosInLine))
            /\ i' = i + 1
            /\ charPosInLine' = charPosInLine + 1
    /\ UNCHANGED <<source, currentLine, errors, pc, word, startPos, startLine>>
    /\ UNCHANGED <<timeVars, evalVars, parseVars>>

ScanPunct ==
    /\ AtScan /\ IsPunct(At(i))
    /\ tokens' = Append(tokens,
            Token(PunctType(At(i)), <<At(i)>>, currentLine, charPosInLine))
    /\ i' = i + 1
    /\ charPosInLine' = charPosInLine + 1
    /\ UNCHANGED <<source, currentLine, errors, pc, word, startPos, startLine>>
    /\ UNCHANGED <<timeVars, evalVars, parseVars>>

ScanDollar ==
    /\ AtScan /\ At(i) = "$"
    /\ tokens' = Append(tokens, Token("EOP", <<"$">>, currentLine, charPosInLine))
    /\ i' = i + 1
    /\ charPosInLine' = charPosInLine + 1
    /\ UNCHANGED <<source, currentLine, errors, pc, word, startPos, startLine>>
    /\ UNCHANGED <<timeVars, evalVars, parseVars>>

\* ScanInvalid without its i++: the scanner stays on the invalid character
ScanInvalidNoAdvance ==
    /\ AtScan
    /\ ~IsSpace(At(i)) /\ At(i) # "#" /\ ~IsAlpha(At(i)) /\ At(i) # QUOTE
    /\ ~IsDigit(At(i)) /\ At(i) # "=" /\ ~IsPunct(At(i)) /\ At(i) # "$"
    /\ errors' = Append(errors,
            ScannerError(currentLine, charPosInLine, "InvalidCharacter",
                         <<"Unexpected character: ", At(i)>>))
    /\ charPosInLine' = charPosInLine + 1
    /\ UNCHANGED <<source, i, currentLine, tokens, pc, word, startPos,
                   startLine>>
    /\ UNCHANGED <<timeVars, evalVars, parseVars>>

ScanInvalid ==
    /\ AtScan
    /\ ~IsSpace(At(i)) /\ At(i) # "#" /\ ~IsAlpha(At(i)) /\ At(i) # QUOTE
    /\ ~IsDigit(At(i)) /\ At(i) # "=" /\ ~IsPunct(At(i)) /\ At(i) # "$"
    /\ errors' = Append(errors,
            ScannerError(currentLine, charPosInLine, "InvalidCharacter",
                         <<"Unexpected character: ", At(i)>>))
    /\ i' = i + 1
    /\ charPosInLine' = charPosInLine + 1
    /\ UNCHANGED <<source, currentLine, tokens, pc, word, startPos, startLine>>
    /\ UNCHANGED <<timeVars, evalVars, parseVars>>

\* the loop condition fails: tokens.push_back({ EOP, "", ... }); return tokens
ScanFinish ==
    /\ pc = "scan" /\ i >= Len(source)
    /\ tokens' = Append(tokens, Token("EOP", <<>>, currentLine, charPosInLine))
    /\ pc' = "done"
    /\ UNCHANGED <<source, i, currentLine, charPosInLine, errors, word,
                   startPos, startLine>>
    /\ UNCHANGED <<timeVars, evalVars, parseVars>>

NextLex ==
    \/ ScanNewline \/ ScanSpace \/ ScanHash \/ CommentLoop \/ LineCommentLoop
    \/ ScanAlpha \/ WordLoop \/ ScanQuote \/ StringLoop \/ ScanDigit
    \/ DigitLoop \/ ScanAssign \/ ScanPunct \/ ScanDollar \/ ScanInvalid
    \/ ScanFinish

---------------------------------------------------------------------------
(* The texts the scanner is run on.                                        *)

Alphabet == {NL, " ", "#", "a", "1", QUOTE, ":", "=", "+", ";", "$", "@"}
CommentAlphabet == {"#", NL, "a", " "}
BodyAlphabet == {"1", "7", ":", "-", " ", "x", NL}

GeneralSources == SeqsUpTo(Alphabet, MaxLen)
CommentSources ==
    {<<"#", "#">> \o s : s \in SeqsUpTo(CommentAlphabet, MaxComment)}
LiteralSources ==
    {<<QUOTE>> \o b \o <<QUOTE>> \o t :
        b \in SeqsUpTo(BodyAlphabet, MaxBody), t \in {<<>>, <<"a">>}}
SampleSources ==
    {<<"l", "e", "t">>, <<"i", "f">>, <<"t", "h", "e", "n">>, <<"t", "o">>,
     <<"p", "r", "i", "n", "t">>, <<"f", "r", "a", "m", "e">>,
     <<"c", "o", "n", "c", "a", "t">>, <<"a", "u", "d", "i", "o">>,
     <<"p", "l", "a", "y">>, <<"t", "o", "1">>, <<"(", "x", "*", "2", ")">>,
     <<QUOTE, "2", "1", "4", "7", "4", "8", "3", "6", "4", "7", ":", "6", "0",
       QUOTE>>,
     <<QUOTE, "2", "1", "4", "7", "4", "8", "3", "6", "4", "8", ":", "0",
       QUOTE>>}
Sources ==
    GeneralSources \cup CommentSources \cup LiteralSources \cup SampleSources

---------------------------------------------------------------------------
(* TimePosition on its own: a value is constructed, from two ints or from  *)
(* a string, added to and multiplied. A call that throws leaves no value.  *)

CtorInts == {-1, 0, 1, 59, 60, 61, 75, 125, IntMax}
Scalars == {-1, 0, 1, 2, 60, IntMax}
TimeStrings ==
    {<<"1", "0", ":", "7", "5">>,
     <<"0", "0", ":", "1", "0">>,
     <<"0", ":", "5", "9">>,
     <<"1", ":", "-", "5">>,
     <<"-", "1", ":", "1", "2", "0">>,
     <<"2", "1", "4", "7", "4", "8", "3", "6", "4", "7", ":", "6", "0">>,
     <<"2", "1", "4", "7", "4", "8", "3", "6", "4", "8", ":", "0">>,
     <<"7">>,
     <<"1", ":">>,
     <<":", "1">>,
     <<"1", ":", "2", "x">>,
     <<" ", "3", ":", "4">>,
     <<"3", "5", "7", "9", "1", "3", "9", "4", ":", "0", "7">>}
Addends ==
    {[minutes |-> 0, seconds |-> 10], [minutes |-> 0, seconds |-> 50],
     [minutes |-> 1, seconds |-> 0], [minutes |-> 35791394, seconds |-> 7]}

TimeOf(r) == [minutes |-> r.minutes, seconds |-> r.seconds]

\* the two ints std::stoi hands to normalize, when it returns both
ParsedCall(s) ==
    LET colonPos == Find(s, ":")
        m == Stoi(SubSeq(s, 1, colonPos - 1))
        sec == Stoi(SubSeq(s, colonPos + 1, Len(s)))
    IN  IF colonPos # 0 /\ m.ok /\ sec.ok
        THEN [op |-> "string", min |-> m.val, seg |-> sec.val]
        ELSE [op |-> "unparsed", min |-> 0, seg |-> 0]

TimeConstruct ==
    /\ pc = "idle" /\ evalPc = "idle" /\ timeOps < MaxTimeOps
    /\ \E min \in CtorInts, seg \in CtorInts, ub \in UBInts :
        /\ time' = TimePosition(min, seg, ub)
        /\ timeCall' = [op |-> "ints", min |-> min, seg |-> seg]
    /\ timeOps' = timeOps + 1
    /\ UNCHANGED <<lexVars, evalVars, parseVars>>

TimeParse ==
    /\ pc = "idle" /\ evalPc = "idle" /\ timeOps < MaxTimeOps
    /\ \E s \in TimeStrings, ub \in UBInts :
        /\ time' = TimePositionStr(s, ub)
        /\ timeCall' = ParsedCall(s)
    /\ timeOps' = timeOps + 1
    /\ UNCHANGED <<lexVars, evalVars, parseVars>>

TimeAdd ==
    /\ pc = "idle" /\ evalPc = "idle" /\ timeOps < MaxTimeOps
    /\ time.ok
    /\ \E other \in Addends, ub \in UBInts :
        /\ time' = TimePlus(time, other, ub)
        /\ timeCall' = [op |-> "plus", min |-> 0, seg |-> 0]
    /\ timeOps' = timeOps + 1
    /\ UNCHANGED <<lexVars, evalVars, parseVars>>

TimeMul ==
    /\ pc = "idle" /\ evalPc = "idle" /\ timeOps < MaxTimeOps
    /\ time.ok
    /\ \E n \in Scalars, ub \in UBInts :
        /\ time' = TimeTimes(time, n, ub)
        /\ timeCall' = [op |-> "times", min |-> n, seg |-> 0]
    /\ timeOps' = timeOps + 1
    /\ UNCHANGED <<lexVars, evalVars, parseVars>>

\* TimePosition(t.toString()): the value is printed and the text parsed
TimeReparse ==
    /\ pc = "idle" /\ evalPc = "idle" /\ timeOps < MaxTimeOps
    /\ time.ok
    /\ \E ub \in UBInts :
        /\ time' = TimePositionStr(toString(time), ub)
        /\ timeCall' = [op |-> "reparse", min |-> time.minutes,
                                          seg |-> time.seconds]
    /\ timeOps' = timeOps + 1
    /\ UNCHANGED <<lexVars, evalVars, parseVars>>

\* t.normalize() on a value that exists
TimeNormalize ==
    /\ pc = "idle" /\ evalPc = "idle" /\ timeOps < MaxTimeOps
    /\ time.ok
    /\ \E ub \in UBInts :
        /\ time' = normalize(time.minutes, time.seconds, ub)
        /\ timeCall' = [op |-> "normalize", min |-> time.minutes,
                                            seg |-> time.seconds]
    /\ timeOps' = timeOps + 1
    /\ UNCHANGED <<lexVars, evalVars, parseVars>>

NextTime ==
    \/ TimeConstruct \/ TimeParse \/ TimeAdd \/ TimeMul
    \/ TimeReparse \/ TimeNormalize

---------------------------------------------------------------------------
(* struct Value.                                                           *)

ZeroTime == [minutes |-> 0, seconds |-> 0]

ValueNum(n) == [type |-> "NUMBER", num |-> n, str |-> <<>>, time |-> ZeroTime]
ValueStr(s) == [type |-> "STRING", num |-> 0, str |-> s, time |-> ZeroTime]
ValueTime(t) == [type |-> "TIME", num |-> 0, str |-> <<>>, time |-> TimeOf(t)]

---------------------------------------------------------------------------
(* Parser::evaluate. A call returns [ok, val, errs]: ok is FALSE when it   *)
(* throws, errs are the diagnostics it pushed on Parser::errors.           *)

Returned(v) == [ok |-> TRUE, val |-> v, errs |-> <<>>]
Threw(errs) == [ok |-> FALSE, val |-> ValueNum(0), errs |-> errs]

\* evaluate of a one-token expression
EvalAtom(tok, env, ub) ==
    IF tok.type = "INT"
    THEN LET n == Stoi(tok.value) IN
         IF n.ok THEN Returned(ValueNum(n.val)) ELSE Threw(<<>>)
    ELSE IF tok.type = "STRING" THEN Returned(ValueStr(tok.value))
    ELSE IF tok.type = "TIME"
    THEN LET t == TimePositionStr(tok.value, ub) IN
         IF t.ok THEN Returned(ValueTime(t)) ELSE Threw(<<>>)
    ELSE IF tok.type = "ID" /\ tok.value \in DOMAIN env
    THEN Returned(env[tok.value])
    ELSE Threw(<<ScannerError(tok.line, tok.charPos, "UnknownIdentifier",
                              <<"Unknown identifier: ">> \o tok.value)>>)

\* one iteration of the fold loop, once rhs is evaluated
Combine(res, op, rhs, ub) ==
    IF op.type = "ADD_OP"
    THEN IF res.type = "STRING" /\ rhs.type = "STRING"
         THEN Returned([res EXCEPT !.str = res.str \o rhs.str])
         ELSE IF res.type = "TIME" /\ rhs.type = "TIME"
         THEN LET t == TimePlus(res.time, rhs.time, ub) IN
              IF t.ok THEN Returned([res EXCEPT !.time = TimeOf(t)])
              ELSE Threw(<<>>)
         ELSE Threw(<<ScannerError(op.line, op.charPos, "TypeError",
                                   <<"Invalid + operands">>)>>)
    ELSE IF op.type = "MUL_OP"
    THEN IF res.type = "TIME" /\ rhs.type = "NUMBER"
         THEN LET t == TimeTimes(res.time, rhs.num, ub) IN
              IF t.ok THEN Returned([res EXCEPT !.time = TimeOf(t)])
              ELSE Threw(<<>>)
         ELSE IF res.type = "NUMBER" /\ rhs.type = "TIME"
         THEN LET t == TimeTimes(rhs.time, res.num, ub) IN
              IF t.ok THEN Returned([res EXCEPT !.time = TimeOf(t)])
              ELSE Threw(<<>>)
         ELSE Threw(<<ScannerError(op.line, op.charPos, "TypeError",
                 <<"Multiplication only defined for time * number">>)>>)
    ELSE Returned(res)

\* if (expr.size() == 1) { ... }
EvalSingle ==
    /\ evalPc = "start" /\ Len(expr) = 1
    /\ \E ub \in UBInts :
        LET r == EvalAtom(expr[1], variables, ub) IN
        /\ result' = IF r.ok THEN r.val ELSE result
        /\ perrors' = perrors \o r.errs
        /\ evalPc' = IF r.ok THEN "returned" ELSE "threw"
    /\ UNCHANGED <<expr, variables, ei>>
    /\ UNCHANGED <<lexVars, timeVars, parseVars>>

\* Value result = evaluate({ expr[0] }); size_t i = 1
EvalSeed ==
    /\ evalPc = "start" /\ Len(expr) > 1
    /\ \E ub \in UBInts :
        LET r == EvalAtom(expr[1], variables, ub) IN
        /\ result' = IF r.ok THEN r.val ELSE result
        /\ perrors' = perrors \o r.errs
        /\ evalPc' = IF r.ok THEN "loop" ELSE "threw"
    /\ ei' = 1
    /\ UNCHANGED <<expr, variables>>
    /\ UNCHANGED <<lexVars, timeVars, parseVars>>

\* one iteration of for (size_t i = 1; i < expr.size(); i += 2); expr[i + 1]
\* past the end of expr is an out-of-bounds read
EvalFold ==
    /\ evalPc = "loop" /\ ei < Len(expr)
    /\ IF ei + 1 >= Len(expr)
       THEN evalPc' = "undefined" /\ UNCHANGED <<result, perrors, ei>>
       ELSE \E ub \in UBInts :
            LET rhs == EvalAtom(expr[ei + 2], variables, ub)
                r == IF rhs.ok THEN Combine(result, expr[ei + 1], rhs.val, ub)
                     ELSE rhs
            IN  /\ result' = IF r.ok THEN r.val ELSE result
                /\ perrors' = perrors \o r.errs
                /\ evalPc' = IF r.ok THEN "loop" ELSE "threw"
                /\ ei' = IF r.ok THEN ei + 2 ELSE ei
    /\ UNCHANGED <<expr, variables>>
    /\ UNCHANGED <<lexVars, timeVars, parseVars>>

\* return result
EvalReturn ==
    /\ evalPc = "loop" /\ ei >= Len(expr)
    /\ evalPc' = "returned"
    /\ UNCHANGED <<expr, variables, result, ei, perrors>>
    /\ UNCHANGED <<lexVars, timeVars, parseVars>>

NextEval == EvalSingle \/ EvalSeed \/ EvalFold \/ EvalReturn

---------------------------------------------------------------------------
(* The expressions evaluate is run on: atoms joined by + and *, as         *)
(* parseExpression collects them, over an environment that binds d.        *)

AtomTexts ==
    {[type |-> "INT", value |-> <<"2">>],
     [type |-> "INT",
      value |-> <<"9", "9", "9", "9", "9", "9", "9", "9", "9", "9", "9">>],
     [type |-> "STRING", value |-> <<"a">>],
     [type |-> "TIME", value |-> <<"0", "0", ":", "1", "0">>],
     [type |-> "TIME", value |-> <<"0", "0", ":", "2", "0">>],
     [type |-> "TIME",
      value |-> <<"3", "5", "7", "9", "1", "3", "9", "4", ":", "0", "7">>],
     [type |-> "ID", value |-> <<"d">>], [type |-> "ID", value |-> <<"u">>]}
OpTexts ==
    {[type |-> "ADD_OP", value |-> <<"+">>], [type |-> "MUL_OP", value |-> <<"*">>]}

\* the expression of n atoms and the n - 1 operators between them, each
\* token at column k of line 1
ExprOf(n, atoms, ops) ==
    [k \in 1..(2 * n - 1) |->
        IF k % 2 = 1
        THEN Token(atoms[(k + 1) \div 2].type, atoms[(k + 1) \div 2].value, 1, k)
        ELSE Token(ops[k \div 2].type, ops[k \div 2].value, 1, k)]

Environment == [x \in {<<"d">>} |-> ValueTime([minutes |-> 0, seconds |-> 50])]

---------------------------------------------------------------------------
(* class Parser: panic-mode helpers and parseExpression. The members a     *)
(* production reads and writes are passed as st = [pos, errs, env, oob]    *)
(* (pos, errors, variables, and whether tokens[pos] was read past the end  *)
(* of tokens); tokens is never written.                                    *)

TokAt(p) == tokens[p + 1]

\* tokens[p] as the code reads it without a bounds check
Peek(p) == IF p < Len(tokens) THEN TokAt(p) ELSE Token("EOP", <<>>, 0, 0)

check(p, type) == p < Len(tokens) /\ TokAt(p).type = type

advance(p) == IF p < Len(tokens) THEN p + 1 ELSE p

\* synchronize that stops only behind a ';' or at EOP
RECURSIVE SynchronizePastSemicolon(_)
SynchronizePastSemicolon(p) ==
    IF p < Len(tokens) /\ TokAt(p).type # "EOP"
    THEN IF TokAt(p).type = "SEMICOLON" THEN advance(p)
         ELSE SynchronizePastSemicolon(advance(p))
    ELSE p

\* synchronize that does not stop at EOP
RECURSIVE SynchronizePastEndOfProgram(_)
SynchronizePastEndOfProgram(p) ==
    IF p < Len(tokens)
    THEN IF TokAt(p).type = "SEMICOLON" THEN advance(p)
         ELSE IF TokAt(p).type \in {"LET", "IF", "KEYWORD"} THEN p
         ELSE SynchronizePastEndOfProgram(advance(p))
    ELSE p

\* synchronize that goes on behind a ';' while the next token is a ';' too
RECURSIVE SynchronizePastSemicolons(_)
SynchronizePastSemicolons(p) ==
    IF p < Len(tokens) /\ TokAt(p).type # "EOP"
    THEN IF TokAt(p).type = "SEMICOLON"
         THEN IF check(p + 1, "SEMICOLON")
              THEN SynchronizePastSemicolons(advance(p)) ELSE advance(p)
         ELSE IF TokAt(p).type \in {"LET", "IF", "KEYWORD"} THEN p
         ELSE SynchronizePastSemicolons(advance(p))
    ELSE p

RECURSIVE synchronize(_)
synchronize(p) ==
    IF p < Len(tokens) /\ TokAt(p).type # "EOP"
    THEN IF TokAt(p).type = "SEMICOLON" THEN advance(p)
         ELSE IF TokAt(p).type \in {"LET", "IF", "KEYWORD"} THEN p
         ELSE synchronize(advance(p))
    ELSE p

\* errors.push_back({ tokens[pos].line, tokens[pos].charPos, type, message });
\* synchronize();
Diagnose(st, type, message) ==
    [st EXCEPT
        !.errs = Append(st.errs, ScannerError(Peek(st.pos).line,
                                              Peek(st.pos).charPos, type, message)),
        !.pos = synchronize(st.pos),
        !.oob = st.oob \/ st.pos >= Len(tokens)]

expect(st, type) ==
    IF check(st.pos, type)
    THEN [st |-> [st EXCEPT !.pos = advance(st.pos)], ok |-> TRUE]
    ELSE [st |-> Diagnose(st, "UnexpectedToken",
                     <<"Expected ", type, ", got ">>
                     \o (IF st.pos < Len(tokens) THEN TokAt(st.pos).value
                         ELSE <<"EOF">>)),
          ok |-> FALSE]

\* the operand test with the operators accepted as operands
OperandOrOperator(p) ==
    \/ check(p, "INT") \/ check(p, "STRING") \/ check(p, "TIME") \/ check(p, "ID")
    \/ check(p, "ADD_OP") \/ check(p, "MUL_OP")

IsOperand(p) ==
    check(p, "INT") \/ check(p, "STRING") \/ check(p, "TIME") \/ check(p, "ID")

InvalidExpression(st) ==
    Diagnose(st, "InvalidExpression",
             <<"Expected number, string, time, or identifier">>)

RECURSIVE parseExpression(_)
RECURSIVE ExpressionLoop(_, _)

\* the while loop of parseExpression, with expr collected so far
ExpressionLoop(st, e) ==
    IF st.pos < Len(tokens) /\ (check(st.pos, "ADD_OP") \/ check(st.pos, "MUL_OP"))
    THEN LET withOp == Append(e, TokAt(st.pos))
             st1 == [st EXCEPT !.pos = st.pos + 1]
         IN  IF check(st1.pos, "OPEN_PAR")
             THEN LET sub == parseExpression([st1 EXCEPT !.pos = advance(st1.pos)])
                      close == expect(sub.st, "CLOSE_PAR")
                  IN  IF ~close.ok THEN [st |-> close.st, expr |-> <<>>]
                      ELSE ExpressionLoop(close.st, withOp \o sub.expr)
             ELSE IF ~IsOperand(st1.pos)
             THEN [st |-> InvalidExpression(st1), expr |-> <<>>]
             ELSE ExpressionLoop([st1 EXCEPT !.pos = st1.pos + 1],
                                 Append(withOp, TokAt(st1.pos)))
    ELSE [st |-> st, expr |-> e]

parseExpression(st) ==
    IF check(st.pos, "OPEN_PAR")
    THEN LET sub == parseExpression([st EXCEPT !.pos = advance(st.pos)])
             close == expect(sub.st, "CLOSE_PAR")
         IN  IF ~close.ok THEN [st |-> close.st, expr |-> <<>>]
             ELSE ExpressionLoop(close.st, sub.expr)
    ELSE IF ~IsOperand(st.pos)
    THEN [st |-> InvalidExpression(st), expr |-> <<>>]
    ELSE ExpressionLoop([st EXCEPT !.pos = st.pos + 1], <<TokAt(st.pos)>>)

---------------------------------------------------------------------------
(* Parser::evaluate as parseAssign calls it: the whole call on expression  *)
(* e over the variables env. undef is TRUE when the fold loop reads        *)
(* expr[i + 1] past the end of expr.                                       *)

Defined(r) == [ok |-> r.ok, val |-> r.val, errs |-> r.errs, undef |-> FALSE]
Undefined == [ok |-> FALSE, val |-> ValueNum(0), errs |-> <<>>, undef |-> TRUE]

RECURSIVE EvaluateFrom(_, _, _, _, _)

\* the rest of one iteration, once rhs is evaluated
FoldWith(res, rhs, k, e, env, ub) ==
    IF ~rhs.ok THEN Defined(rhs)
    ELSE LET r == Combine(res, e[k + 1], rhs.val, ub) IN
         IF ~r.ok THEN Defined(r)
         ELSE EvaluateFrom(r.val, k + 2, e, env, ub)

\* the for loop from size_t i = k on, with result = res
EvaluateFrom(res, k, e, env, ub) ==
    IF k >= Len(e) THEN Defined(Returned(res))
    ELSE IF k + 1 >= Len(e) THEN Undefined
    ELSE FoldWith(res, EvalAtom(e[k + 2], env, ub), k, e, env, ub)

\* after evaluate({ expr[0] }): its value is returned when expr.size() == 1
\* and is the first result of the loop otherwise
Seeded(seed, e, env, ub) ==
    IF ~seed.ok \/ Len(e) = 1 THEN Defined(seed)
    ELSE EvaluateFrom(seed.val, 1, e, env, ub)

evaluate(e, env, ub) ==
    IF Len(e) = 0 THEN Undefined
    ELSE Seeded(EvalAtom(e[1], env, ub), e, env, ub)

---------------------------------------------------------------------------
(* struct ASTNode and the statement productions. A production returns     *)
(* [st, node, outcome]: outcome is "returned" with the node it returns,    *)
(* "threw" when an exception leaves it, "undefined" after an out-of-bounds *)
(* read.                                                                   *)

ASTNode(cmd, var, e1, e2, e3, dest) ==
    [command |-> cmd, varName |-> var, expr1 |-> e1, expr2 |-> e2,
     expr3 |-> e3, destination |-> dest, statements |-> <<>>]

ErrorCmd == <<"e", "r", "r", "o", "r">>
LetCmd == <<"l", "e", "t">>
IfCmd == <<"i", "f">>
FrameCmd == <<"f", "r", "a", "m", "e">>
ConcatCmd == <<"c", "o", "n", "c", "a", "t">>
AudioCmd == <<"a", "u", "d", "i", "o">>
PlayCmd == <<"p", "l", "a", "y">>

ErrorNode == ASTNode(ErrorCmd, <<>>, <<>>, <<>>, <<>>, <<>>)

ReturnNode(st, node) == [st |-> st, node |-> node, outcome |-> "returned"]
ReturnError(st) == ReturnNode(st, ErrorNode)

\* std::string name = tokens[pos].value, with no bounds check
ReadValue(st) == [st EXCEPT !.oob = st.oob \/ st.pos >= Len(tokens)]

\* variables[varName] = evaluate(expr): the right-hand side is evaluated
\* before the entry for varName is made
Bind(env, varName, val) ==
    [x \in DOMAIN env \cup {varName} |-> IF x = varName THEN val ELSE env[x]]

\* if (!expect(type)) return { "error" }; and then K
Then(r, K(_)) == IF r.ok THEN K(r.st) ELSE ReturnError(r.st)

\* auto expr = parseExpression(); if (expr.empty()) return { "error" }; and
\* then K
NonEmpty(x, K(_, _)) == IF x.expr = <<>> THEN ReturnError(x.st) ELSE K(x.st, x.expr)

\* auto expr = parseExpression(); and then K
WithExpr(x, K(_, _)) == K(x.st, x.expr)

\* variables[varName] = evaluate(expr) with the entry for varName made, with
\* a default Value, before the right-hand side is evaluated
StoreEntryFirst(st, node, v) ==
    LET entered == IF node.varName \in DOMAIN st.env THEN st.env
                   ELSE Bind(st.env, node.varName, ValueNum(0))
        after == [st EXCEPT !.errs = st.errs \o v.errs, !.env = entered]
    IN  IF v.undef THEN [st |-> after, node |-> node, outcome |-> "undefined"]
        ELSE IF ~v.ok THEN [st |-> after, node |-> node, outcome |-> "threw"]
        ELSE ReturnNode([after EXCEPT !.env = Bind(st.env, node.varName, v.val)], node)

\* variables[varName] = v, where v is what evaluate(expr) returned or threw
Store(st, node, v) ==
    LET after == [st EXCEPT !.errs = st.errs \o v.errs] IN
    IF v.undef THEN [st |-> after, node |-> node, outcome |-> "undefined"]
    ELSE IF ~v.ok THEN [st |-> after, node |-> node, outcome |-> "threw"]
    ELSE ReturnNode([after EXCEPT !.env = Bind(st.env, node.varName, v.val)], node)

\* if (!expr.empty()) variables[varName] = evaluate(expr);
\* return { "let", varName, expr, {}, {}, "" };
Assign(st, node, ub) ==
    IF node.expr1 = <<>> THEN ReturnNode(st, node)
    ELSE Store(st, node, evaluate(node.expr1, st.env, ub))

parseAssign(st, ub) ==
    Then(expect(st, "LET"), LAMBDA s1 :
    Then(expect(ReadValue(s1), "ID"), LAMBDA s2 :
    Then(expect(s2, "ASSIGN_OP"), LAMBDA s3 :
    WithExpr(parseExpression(s3), LAMBDA s4, e :
    Then(expect(s4, "SEMICOLON"), LAMBDA s5 :
    Assign(s5, ASTNode(LetCmd, Peek(s1.pos).value, e, <<>>, <<>>, <<>>), ub))))))

\* to <STRING> ; after the operands of frame, concat and audio
Destination(st, cmd, e1, e2, e3) ==
    Then(expect(st, "TO"), LAMBDA s1 :
    Then(expect(ReadValue(s1), "STRING"), LAMBDA s2 :
    Then(expect(s2, "SEMICOLON"), LAMBDA s3 :
    ReturnNode(s3, ASTNode(cmd, <<>>, e1, e2, e3, Peek(s1.pos).value)))))

\* errors.push_back({ tokens[pos - 1]..., "UnknownCommand", ... }); synchronize();
UnknownCommand(st, cmd) ==
    [st EXCEPT
        !.errs = Append(st.errs,
                        ScannerError(Peek(st.pos - 1).line, Peek(st.pos - 1).charPos,
                                     "UnknownCommand", <<"Unknown command: ">> \o cmd)),
        !.pos = synchronize(st.pos)]

\* parseCommand after expect(KEYWORD), with cmd the value of the keyword
Command(st, cmd) ==
    IF cmd \in {FrameCmd, ConcatCmd}
    THEN NonEmpty(parseExpression(st), LAMBDA s1, e1 :
         NonEmpty(parseExpression(s1), LAMBDA s2, e2 :
         Destination(s2, cmd, e1, e2, <<>>)))
    ELSE IF cmd = AudioCmd
    THEN NonEmpty(parseExpression(st), LAMBDA s1, e1 :
         NonEmpty(parseExpression(s1), LAMBDA s2, e2 :
         NonEmpty(parseExpression(s2), LAMBDA s3, e3 :
         Destination(s3, cmd, e1, e2, e3))))
    ELSE IF cmd = PlayCmd
    THEN NonEmpty(parseExpression(st), LAMBDA s1, e1 :
         IF check(s1.pos, "SEMICOLON")
         THEN ReturnNode(expect(s1, "SEMICOLON").st,
                         ASTNode(cmd, <<>>, e1, <<>>, <<>>, <<>>))
         ELSE NonEmpty(parseExpression(s1), LAMBDA s2, e2 :
              NonEmpty(parseExpression(s2), LAMBDA s3, e3 :
              Then(expect(s3, "SEMICOLON"), LAMBDA s4 :
              ReturnNode(s4, ASTNode(cmd, <<>>, e1, e2, e3, <<>>))))))
    ELSE ReturnError(UnknownCommand(st, cmd))

parseCommand(st) ==
    Then(expect(ReadValue(st), "KEYWORD"), LAMBDA s1 :
    Command(s1, Peek(st.pos).value))

RECURSIVE parseStatement(_, _)

\* the node is returned with the guarded statement as its only child; an
\* exception thrown by the guarded statement leaves parseIfStmt as well
Guarding(stmt, e1, e2) ==
    IF stmt.outcome # "returned" THEN stmt
    ELSE ReturnNode(stmt.st,
            [ASTNode(IfCmd, <<>>, e1, e2, <<>>, <<>>)
                EXCEPT !.statements = <<stmt.node>>])

parseIfStmt(st, ub) ==
    Then(expect(st, "IF"), LAMBDA s1 :
    NonEmpty(parseExpression(s1), LAMBDA s2, e1 :
    Then(expect(s2, "EQUALS"), LAMBDA s3 :
    NonEmpty(parseExpression(s3), LAMBDA s4, e2 :
    Then(expect(s4, "THEN"), LAMBDA s5 :
    Guarding(parseStatement(s5, ub), e1, e2))))))

parseStatement(st, ub) ==
    IF check(st.pos, "LET") THEN parseAssign(st, ub)
    ELSE IF check(st.pos, "IF") THEN parseIfStmt(st, ub)
    ELSE IF check(st.pos, "KEYWORD") THEN parseCommand(st)
    ELSE ReturnError(Diagnose(st, "InvalidStatement",
                              <<"Expected let, if, or command">>))

---------------------------------------------------------------------------
(* Parser::translateToPython. What is written to the stream is kept as the *)
(* sequence of the pieces written, each with the command of the branch     *)
(* that wrote it: [by, text].                                              *)

ProgramCmd == <<"p", "r", "o", "g", "r", "a", "m">>

RECURSIVE SpaceAfterEach(_)
SpaceAfterEach(e) ==
    IF e = <<>> THEN <<>> ELSE Head(e).value \o <<" ">> \o SpaceAfterEach(Tail(e))

exprToString(e) ==
    LET r == SpaceAfterEach(e) IN
    IF r = <<>> THEN <<>> ELSE SubSeq(r, 1, Len(r) - 1)

Written(by, text) == [by |-> by, text |-> text]

RECURSIVE translateToPython(_)
RECURSIVE TranslateEach(_, _)

\* the loop over node.statements: the program branch writes a new line after
\* each statement, the if branch four spaces before it
TranslateEach(node, k) ==
    IF k > Len(node.statements) THEN <<>>
    ELSE IF node.command = ProgramCmd
    THEN translateToPython(node.statements[k])
            \o <<Written(ProgramCmd, <<"\n">>)>> \o TranslateEach(node, k + 1)
    ELSE <<Written(IfCmd, <<"    ">>)>>
            \o translateToPython(node.statements[k]) \o TranslateEach(node, k + 1)

translateToPython(node) ==
    IF node.command = ProgramCmd
    THEN <<Written(ProgramCmd, <<"import ffmpeg\n", "import subprocess\n\n">>)>>
            \o TranslateEach(node, 1)
    ELSE IF node.command = PlayCmd
    THEN <<Written(PlayCmd,
            <<"subprocess.run([\"vlc\", \"">> \o exprToString(node.expr1) \o <<"\"">>
            \o (IF node.expr2 # <<>>
                THEN <<", \"--start-time\", \"">> \o exprToString(node.expr2)
                     \o <<"\", \"--stop-time\", \"">> \o exprToString(node.expr3)
                     \o <<"\"">>
                ELSE <<>>)
            \o <<"])\n">>)>>
    ELSE IF node.command = FrameCmd
    THEN <<Written(FrameCmd,
            <<"ffmpeg.input(\"">> \o exprToString(node.expr1)
            \o <<"\").filter(\"select\", \"eq(n\\\\,">> \o exprToString(node.expr2)
            \o <<")\").output(\"">> \o node.destination
            \o <<"\", vframes=1).run()\n">>)>>
    ELSE IF node.command = ConcatCmd
    THEN <<Written(ConcatCmd,
            <<"# Convert inputs\n", "ffmpeg.input(\"">> \o exprToString(node.expr1)
            \o <<"\").output(\"converted_0.mp4\", vcodec='libx264', acodec='aac').run()\n",
                 "ffmpeg.input(\"">> \o exprToString(node.expr2)
            \o <<"\").output(\"converted_1.mp4\", vcodec='libx264', acodec='aac').run()\n\n",
                 "# Write concat file list\n",
                 "with open('files.txt', 'w') as f:\n",
                 "    f.write(\"file 'converted_0.mp4'\\n\")\n",
                 "    f.write(\"file 'converted_1.mp4'\\n\")\n\n",
                 "# Concatenate with concat demuxer\n",
                 "subprocess.run(['ffmpeg', '-f', 'concat', '-safe', '0', '-i', 'files.txt', '-c', 'copy', '">>
            \o node.destination \o <<"'])\n">>)>>
    ELSE IF node.command = AudioCmd
    THEN <<Written(AudioCmd,
            <<"ffmpeg.input(\"">> \o exprToString(node.expr1)
            \o <<"\", ss=\"">> \o exprToString(node.expr2)
            \o <<"\", to=\"">> \o exprToString(node.expr3)
            \o <<"\").output(\"">> \o node.destination
            \o <<"\", vn=None, acodec='mp3').run()\n">>)>>
    ELSE IF node.command = IfCmd
    THEN <<Written(IfCmd,
            <<"if ">> \o exprToString(node.expr1) \o <<" == ">>
            \o exprToString(node.expr2) \o <<":\n">>)>>
            \o TranslateEach(node, 1)
    ELSE <<>>

---------------------------------------------------------------------------
(* Parser::parseAndExecute on the tokens of tokenize: parseProgram, one    *)
(* action per iteration of its loop, and then the translation.             *)

ParserState == [pos |-> pos, errs |-> perrors, env |-> variables, oob |-> oob]

\* what the loop of parseProgram does with r, the outcome of parseStatement:
\* root.statements.push_back(stmt), or catch (...) { synchronize(); }
Caught(r) ==
    /\ perrors' = r.st.errs
    /\ variables' = r.st.env
    /\ oob' = r.st.oob
    /\ IF r.outcome = "undefined" \/ r.st.oob
       THEN parsePc' = "undefined" /\ UNCHANGED <<pos, root>>
       ELSE /\ parsePc' = "parse"
            /\ pos' = IF r.outcome = "threw" THEN synchronize(r.st.pos)
                      ELSE r.st.pos
            /\ root' = IF r.outcome = "threw" THEN root ELSE Append(root, r.node)

\* one iteration of the while loop of parseProgram
ParseProgramLoop ==
    /\ pc = "done" /\ parsePc = "parse"
    /\ pos < Len(tokens) /\ TokAt(pos).type # "EOP"
    /\ \E ub \in UBInts : Caught(parseStatement(ParserState, ub))
    /\ UNCHANGED <<pyOut, expr, result, ei, evalPc>>
    /\ UNCHANGED <<lexVars, timeVars>>

\* if (check(TokenType::EOP)) advance(); return root;
ParseProgramReturn ==
    /\ pc = "done" /\ parsePc = "parse"
    /\ ~(pos < Len(tokens) /\ TokAt(pos).type # "EOP")
    /\ pos' = IF check(pos, "EOP") THEN advance(pos) ELSE pos
    /\ parsePc' = "parsed"
    /\ UNCHANGED <<root, pyOut, oob, evalVars>>
    /\ UNCHANGED <<lexVars, timeVars>>

Program == [ASTNode(ProgramCmd, <<>>, <<>>, <<>>, <<>>, <<>>)
                EXCEPT !.statements = root]

\* after parseProgram: the errors are printed, or else the script is written
Translate ==
    /\ pc = "done" /\ parsePc = "parsed"
    /\ pyOut' = IF perrors # <<>> THEN pyOut ELSE translateToPython(Program)
    /\ parsePc' = "done"
    /\ UNCHANGED <<pos, root, oob, evalVars>>
    /\ UNCHANGED <<lexVars, timeVars>>

NextParse == NextLex \/ ParseProgramLoop \/ ParseProgramReturn \/ Translate

---------------------------------------------------------------------------
(* The programs the parser is run on: one statement, two statements in a   *)
(* row, or one of the whole programs.                                      *)

\* statements, well formed and malformed, that programs are made of
Statements ==
    \* let x = "00:10";
    {<<"l", "e", "t", " ", "x", " ", "=", " ", QUOTE, "0", "0", ":", "1",
       "0", QUOTE, ";">>,
    \* let y = x;
     <<"l", "e", "t", " ", "y", " ", "=", " ", "x", ";">>,
    \* let y = x + "00:20";
     <<"l", "e", "t", " ", "y", " ", "=", " ", "x", " ", "+", " ", QUOTE,
       "0", "0", ":", "2", "0", QUOTE, ";">>,
    \* let x = 1 + 2;
     <<"l", "e", "t", " ", "x", " ", "=", " ", "1", " ", "+", " ", "2", ";">>,
    \* let x = x;
     <<"l", "e", "t", " ", "x", " ", "=", " ", "x", ";">>,
    \* play "v";
     <<"p", "l", "a", "y", " ", QUOTE, "v", QUOTE, ";">>,
    \* play "v" "00:01" "00:02";
     <<"p", "l", "a", "y", " ", QUOTE, "v", QUOTE, " ", QUOTE, "0", "0", ":",
       "0", "1", QUOTE, " ", QUOTE, "0", "0", ":", "0", "2", QUOTE, ";">>,
    \* frame "v" 5 to "f";
     <<"f", "r", "a", "m", "e", " ", QUOTE, "v", QUOTE, " ", "5", " ", "t",
       "o", " ", QUOTE, "f", QUOTE, ";">>,
    \* concat "v" "w" to "o";
     <<"c", "o", "n", "c", "a", "t", " ", QUOTE, "v", QUOTE, " ", QUOTE, "w",
       QUOTE, " ", "t", "o", " ", QUOTE, "o", QUOTE, ";">>,
    \* audio "v" "00:01" x to "o";
     <<"a", "u", "d", "i", "o", " ", QUOTE, "v", QUOTE, " ", QUOTE, "0", "0",
       ":", "0", "1", QUOTE, " ", "x", " ", "t", "o", " ", QUOTE, "o", QUOTE,
       ";">>,
    \* if "00:05" == "00:05" then play "v";
     <<"i", "f", " ", QUOTE, "0", "0", ":", "0", "5", QUOTE, " ", "=", "=",
       " ", QUOTE, "0", "0", ":", "0", "5", QUOTE, " ", "t", "h", "e", "n",
       " ", "p", "l", "a", "y", " ", QUOTE, "v", QUOTE, ";">>,
    \* if x == "00:06" then frame "v" 5 to "f";
     <<"i", "f", " ", "x", " ", "=", "=", " ", QUOTE, "0", "0", ":", "0",
       "6", QUOTE, " ", "t", "h", "e", "n", " ", "f", "r", "a", "m", "e",
       " ", QUOTE, "v", QUOTE, " ", "5", " ", "t", "o", " ", QUOTE, "f",
       QUOTE, ";">>,
    \* let x = "00:10"
     <<"l", "e", "t", " ", "x", " ", "=", " ", QUOTE, "0", "0", ":", "1",
       "0", QUOTE>>,
    \* let x = ;
     <<"l", "e", "t", " ", "x", " ", "=", " ", ";">>,
    \* ;
     <<";">>,
    \* audio "v" x + + "00:10" to "o";
     <<"a", "u", "d", "i", "o", " ", QUOTE, "v", QUOTE, " ", "x", " ", "+",
       " ", "+", " ", QUOTE, "0", "0", ":", "1", "0", QUOTE, " ", "t", "o",
       " ", QUOTE, "o", QUOTE, ";">>,
    \* if "a" == "a" then foo;
     <<"i", "f", " ", QUOTE, "a", QUOTE, " ", "=", "=", " ", QUOTE, "a",
       QUOTE, " ", "t", "h", "e", "n", " ", "f", "o", "o", ";">>,
    \* if "a" == "a" then let y = u;
     <<"i", "f", " ", QUOTE, "a", QUOTE, " ", "=", "=", " ", QUOTE, "a",
       QUOTE, " ", "t", "h", "e", "n", " ", "l", "e", "t", " ", "y", " ",
       "=", " ", "u", ";">>,
    \* $
     <<"$">>,
    \* let x = "a" + ( ; ) ;
     <<"l", "e", "t", " ", "x", " ", "=", " ", QUOTE, "a", QUOTE, " ", "+",
       " ", "(", " ", ";", " ", ")", " ", ";">>,
    \* play "v" "00:01";
     <<"p", "l", "a", "y", " ", QUOTE, "v", QUOTE, " ", QUOTE, "0", "0", ":",
       "0", "1", QUOTE, ";">>,
    \* let x = ("00:10" * 2);
     <<"l", "e", "t", " ", "x", " ", "=", " ", "(", QUOTE, "0", "0", ":",
       "1", "0", QUOTE, " ", "*", " ", "2", ")", ";">>,
    \* frame "v" 5 "f";
     <<"f", "r", "a", "m", "e", " ", QUOTE, "v", QUOTE, " ", "5", " ", QUOTE,
       "f", QUOTE, ";">>,
    \* play (x;
     <<"p", "l", "a", "y", " ", "(", "x", ";">>,
    \* ## a ##\n# b\n@
     <<"#", "#", " ", "a", " ", "#", "#", NL, "#", " ", "b", NL, "@">>,
    \* if x then
     <<"i", "f", " ", "x", " ", "t", "h", "e", "n">>}

\* whole programs
Scenarios ==
    \* let start = "00:10" frame "video.mp4" 5 to "frame5.bmp";
    {<<"l", "e", "t", " ", "s", "t", "a", "r", "t", " ", "=", " ", QUOTE,
       "0", "0", ":", "1", "0", QUOTE, " ", "f", "r", "a", "m", "e", " ",
       QUOTE, "v", "i", "d", "e", "o", ".", "m", "p", "4", QUOTE, " ", "5",
       " ", "t", "o", " ", QUOTE, "f", "r", "a", "m", "e", "5", ".", "b",
       "m", "p", QUOTE, ";">>,
    \* audio "video.mp4" duration + + "00:10" to "audio.mp3";
     <<"a", "u", "d", "i", "o", " ", QUOTE, "v", "i", "d", "e", "o", ".",
       "m", "p", "4", QUOTE, " ", "d", "u", "r", "a", "t", "i", "o", "n",
       " ", "+", " ", "+", " ", QUOTE, "0", "0", ":", "1", "0", QUOTE, " ",
       "t", "o", " ", QUOTE, "a", "u", "d", "i", "o", ".", "m", "p", "3",
       QUOTE, ";">>,
    \* if "00:05" == "00:05" then play "video.mp4";
     <<"i", "f", " ", QUOTE, "0", "0", ":", "0", "5", QUOTE, " ", "=", "=",
       " ", QUOTE, "0", "0", ":", "0", "5", QUOTE, " ", "t", "h", "e", "n",
       " ", "p", "l", "a", "y", " ", QUOTE, "v", "i", "d", "e", "o", ".",
       "m", "p", "4", QUOTE, ";">>,
    \* if "00:05" == "00:06" then play "video.mp4";
     <<"i", "f", " ", QUOTE, "0", "0", ":", "0", "5", QUOTE, " ", "=", "=",
       " ", QUOTE, "0", "0", ":", "0", "6", QUOTE, " ", "t", "h", "e", "n",
       " ", "p", "l", "a", "y", " ", QUOTE, "v", "i", "d", "e", "o", ".",
       "m", "p", "4", QUOTE, ";">>,
    \* let v = "a.mp4"; play v;
     <<"l", "e", "t", " ", "v", " ", "=", " ", QUOTE, "a", ".", "m", "p",
       "4", QUOTE, ";", " ", "p", "l", "a", "y", " ", "v", ";">>,
    \* frame "v.mp4" "a" to "f.bmp";
     <<"f", "r", "a", "m", "e", " ", QUOTE, "v", ".", "m", "p", "4", QUOTE,
       " ", QUOTE, "a", QUOTE, " ", "t", "o", " ", QUOTE, "f", ".", "b", "m",
       "p", QUOTE, ";">>}


Programs ==
    Statements \cup {a \o <<" ">> \o b : a \in Statements, b \in Statements}
        \cup Scenarios

---------------------------------------------------------------------------
(* Initial states and specifications.                                      *)

LexIdle ==
    /\ source = <<>> /\ i = 0 /\ currentLine = 1 /\ charPosInLine = 1
    /\ tokens = <<>> /\ errors = <<>> /\ pc = "idle" /\ word = <<>>
    /\ startPos = 0 /\ startLine = 0

NoCall == [op |-> "none", min |-> 0, seg |-> 0]

TimeIdle == time = Thrown /\ timeOps = 0 /\ timeCall = NoCall

EvalIdle ==
    /\ expr = <<>> /\ variables = <<>> /\ result = <<>> /\ ei = 0
    /\ perrors = <<>> /\ evalPc = "idle"

ParseIdle ==
    /\ pos = 0 /\ root = <<>> /\ pyOut = <<>> /\ oob = FALSE /\ parsePc = "idle"

Init ==
    /\ source \in Sources
    /\ i = 0 /\ currentLine = 1 /\ charPosInLine = 1
    /\ tokens = <<>> /\ errors = <<>> /\ pc = "scan" /\ word = <<>>
    /\ startPos = 0 /\ startLine = 0
    /\ TimeIdle /\ EvalIdle /\ ParseIdle

Next == NextLex

Spec == Init /\ [][Next]_vars

InitTime ==
    /\ LexIdle /\ EvalIdle /\ ParseIdle
    /\ time = TimePosition(0, 0, 0) /\ timeOps = 0 /\ timeCall = NoCall

SpecTime == InitTime /\ [][NextTime]_vars

InitEval ==
    /\ LexIdle /\ TimeIdle /\ ParseIdle
    /\ \E n \in 1..MaxAtoms :
        \E atoms \in [1..n -> AtomTexts], ops \in [1..(n - 1) -> OpTexts] :
            expr = ExprOf(n, atoms, ops)
    /\ variables = Environment
    /\ result = ValueNum(0) /\ ei = 0 /\ perrors = <<>> /\ evalPc = "start"

SpecEval == InitEval /\ [][NextEval]_vars

\* Parser(tokenize(source, errors)).parseAndExecute()
InitParse ==
    /\ source \in Programs
    /\ i = 0 /\ currentLine = 1 /\ charPosInLine = 1
    /\ tokens = <<>> /\ errors = <<>> /\ pc = "scan" /\ word = <<>>
    /\ startPos = 0 /\ startLine = 0
    /\ TimeIdle /\ EvalIdle
    /\ pos = 0 /\ root = <<>> /\ pyOut = <<>> /\ oob = FALSE /\ parsePc = "parse"

SpecParse == InitParse /\ [][NextParse]_vars

---------------------------------------------------------------------------
(* Properties of tokenize.                                                 *)

Last(s) == s[Len(s)]
ErrorsOfType(errs, type) == {k \in 1..Len(errs) : errs[k].type = type}

\* the 1-based line and column of source[k], counted from the text itself
TrueLine(k) == 1 + Cardinality({j \in 0..(k - 1) : At(j) = NL})
TrueCol(k) ==
    LET nls == {j \in 0..(k - 1) : At(j) = NL} IN
    IF nls = {} THEN k + 1
    ELSE k - (CHOOSE j \in nls : \A h \in nls : h <= j)

\* the number of characters of the text a token was made from
TokenExtent(tok) ==
    IF tok.type \in {"STRING", "TIME"} THEN Len(tok.value) + 2
    ELSE Len(tok.value)

\* C1: for every source text the token sequence returned by tokenize ends in
\* exactly one EndOfProgram token: the last token is EOP and no earlier token
\* is EOP, also for texts that contain the character '$'.
C1_ExactlyOneEndOfProgram ==
    pc = "done" =>
        /\ tokens # <<>>
        /\ Last(tokens).type = "EOP"
        /\ \A k \in 1..(Len(tokens) - 1) : tokens[k].type # "EOP"

\* The measure that every step of tokenize decreases: the characters left,
\* and within one position the place in the loops.
Variant ==
    3 * (Len(source) - i)
    + (CASE pc = "scan" -> 2
         [] pc \in {"word", "digits"} -> IF word = <<>> THEN 1 ELSE 3
         [] pc \in {"comment", "line", "string"} -> 3
         [] OTHER -> 0)

C2_StepProgress ==
    /\ Variant' < Variant /\ Variant' >= 0
    /\ i' >= i /\ i' <= Len(source)
    /\ (pc' = pc => i' > i)

\* C2: tokenize terminates on every source text: every iteration of the scan
\* loop and of its inner loops (block comment, line comment, string, word,
\* digits, invalid character) strictly advances the input index, no step
\* moves it back or past the end, a step is possible until tokenize has
\* returned, and every step decreases a measure that is bounded below.
C2_TokenizeTerminates ==
    /\ [](pc # "done" => ENABLED Next)
    /\ [][C2_StepProgress]_vars

\* tokenize has returned from a text with all of MaxLen characters, having
\* recorded a diagnostic and emitted a token besides the final EOP
C2_Witness ==
    /\ pc = "done" /\ i = Len(source) /\ Len(source) >= 3
    /\ errors # <<>> /\ Len(tokens) >= 2

\* C3: every token emitted by tokenize carries the exact 1-based line and
\* column of its first character in the source, also after a block comment
\* or a string literal.
C3_TokenPositionsExact ==
    [][Len(tokens') = Len(tokens) + 1 =>
        LET tok == Last(tokens')
            start == i' - TokenExtent(tok)
        IN  tok.line = TrueLine(start) /\ tok.charPos = TrueCol(start)]_vars

\* the text opens a block comment that no later ## closes
UnterminatedBlockComment ==
    /\ Len(source) >= 2 /\ At(0) = "#" /\ At(1) = "#"
    /\ ~\E k \in 2..(Len(source) - 2) : At(k) = "#" /\ At(k + 1) = "#"

\* C4: when a block comment opened by ## has no closing ## before the end of
\* input, tokenize records exactly one UnterminatedComment diagnostic and no
\* token is produced from any character after the opening ##: only the final
\* EndOfProgram token is returned.
C4_UnterminatedCommentSwallowsRest ==
    (pc = "done" /\ UnterminatedBlockComment) =>
        /\ Cardinality(ErrorsOfType(errors, "UnterminatedComment")) = 1
        /\ Len(tokens) = 1 /\ tokens[1].type = "EOP"

\* ^\d+:\d+$
MatchesTimePattern(b) ==
    \E c \in 2..(Len(b) - 1) :
        /\ b[c] = ":"
        /\ \A k \in 1..Len(b) : k # c => IsDigit(b[k])

\* the text is one double-quoted literal whose body contains a colon
IsColonLiteral ==
    /\ Len(source) >= 3 /\ At(0) = QUOTE /\ Last(source) = QUOTE
    /\ \A k \in 1..(Len(source) - 2) : At(k) # QUOTE
    /\ \E k \in 1..(Len(source) - 2) : At(k) = ":"

LiteralBody == SubSeq(source, 2, Len(source) - 1)

\* C5: a double-quoted literal whose body contains a colon becomes a TIME
\* token only if the body matches ^\d+:\d+$; every other body with a colon
\* yields an InvalidTime diagnostic and no token.
C5_TimeLiteralMatchesPattern ==
    (pc = "done" /\ IsColonLiteral /\ ~MatchesTimePattern(LiteralBody)) =>
        /\ Len(tokens) = 1
        /\ Cardinality(ErrorsOfType(errors, "InvalidTime")) = 1

---------------------------------------------------------------------------
(* Properties of Parser::evaluate.                                         *)

\* expr is a op b, with tokens of these types
IsBinary(lt, op, rt) ==
    /\ Len(expr) = 3
    /\ expr[1].type = lt /\ expr[2].type = op /\ expr[3].type = rt

LiteralTime(tok) == TimeOf(TimePositionStr(tok.value, 0))
LiteralInt(tok) == Stoi(tok.value).val

\* the time of this many seconds, in minutes and seconds below 60
Renormalized(total) == [minutes |-> total \div 60, seconds |-> total % 60]

\* C6: evaluating Time + Time yields the Time whose total seconds is the sum
\* of the operands' total seconds, renormalized: "00:10" + "00:20" is
\* Time(0, 30) and "00:50" + "00:20" is Time(1, 10).
C6_TimePlusTimeIsSum ==
    (/\ evalPc = "returned" /\ IsBinary("TIME", "ADD_OP", "TIME")
     /\ SecondsFit(LiteralTime(expr[1])) /\ SecondsFit(LiteralTime(expr[3]))
     /\ toSeconds(LiteralTime(expr[1])) <= IntMax - toSeconds(LiteralTime(expr[3])))
    => /\ result.type = "TIME"
       /\ result.time = Renormalized(toSeconds(LiteralTime(expr[1]))
                                     + toSeconds(LiteralTime(expr[3])))

\* C7: evaluating Time * Number yields the Time scaled by the integer: its
\* total seconds is the left operand's total seconds times the number,
\* renormalized ("00:30" * 2 is Time(1, 0)).
C7_TimeTimesNumberIsScaled ==
    (/\ evalPc = "returned" /\ IsBinary("TIME", "MUL_OP", "INT")
     /\ SecondsFit(LiteralTime(expr[1]))
     /\ LiteralInt(expr[3]) > 0
     /\ toSeconds(LiteralTime(expr[1])) <= IntMax \div LiteralInt(expr[3]))
    => /\ result.type = "TIME"
       /\ result.time = Renormalized(toSeconds(LiteralTime(expr[1]))
                                     * LiteralInt(expr[3]))

\* C8: Number * Time is the commuted form of Time * Number: evaluating n * t
\* yields a value of type Time, equal to the value of evaluating t * n.
C8_NumberTimesTimeCommutes ==
    (/\ evalPc = "returned" /\ IsBinary("INT", "MUL_OP", "TIME")
     /\ SecondsFit(LiteralTime(expr[3]))
     /\ LiteralInt(expr[1]) > 0
     /\ toSeconds(LiteralTime(expr[3])) <= IntMax \div LiteralInt(expr[1]))
    => /\ result.type = "TIME"
       /\ result = Combine(ValueTime(LiteralTime(expr[3])), expr[2],
                           ValueNum(LiteralInt(expr[1])), 0).val

\* the four rows of the operator table: the type of the result, or "none"
TableType(op, lt, rt) ==
    IF op = "ADD_OP" /\ lt = "STRING" /\ rt = "STRING" THEN "STRING"
    ELSE IF op = "ADD_OP" /\ lt = "TIME" /\ rt = "TIME" THEN "TIME"
    ELSE IF op = "MUL_OP" /\ lt = "TIME" /\ rt = "NUMBER" THEN "TIME"
    ELSE IF op = "MUL_OP" /\ lt = "NUMBER" /\ rt = "TIME" THEN "TIME"
    ELSE "none"

AtomOk(k) == EvalAtom(expr[k], variables, 0).ok
AtomType(k) == EvalAtom(expr[k], variables, 0).val.type

\* the type the table gives the first n atoms of expr, folded from the left
RECURSIVE TypeByTable(_)
TypeByTable(n) ==
    IF n = 1 THEN AtomType(1)
    ELSE TableType(expr[2 * n - 2].type, TypeByTable(n - 1), AtomType(2 * n - 1))

AtomCount == (Len(expr) + 1) \div 2

\* C9: evaluate fails with a TypeError diagnostic for every operator and
\* operand type combination outside the four table rows (Text + Text,
\* Time + Time, Time * Number, Number * Time), Number + Number included:
\* an expression of evaluable atoms that holds such a combination returns
\* no value, and when its first operator has one, evaluate throws with
\* exactly one TypeError recorded.
C9_TypeErrorOutsideTable ==
    /\ (/\ evalPc = "returned"
        /\ \A k \in 1..AtomCount : AtomOk(2 * k - 1))
       => TypeByTable(AtomCount) # "none"
    /\ (/\ evalPc \in {"returned", "threw"} /\ Len(expr) >= 3
        /\ AtomOk(1) /\ AtomOk(3) /\ TypeByTable(2) = "none")
       => /\ evalPc = "threw"
          /\ Len(perrors) = 1 /\ perrors[1].type = "TypeError"

---------------------------------------------------------------------------
(* Properties of TimePosition.                                             *)

\* normalize's carry of (min, seg) leaves a negative field
NegativeAfterCarry(min, seg) ==
    \/ seg < 0
    \/ seg < 60 /\ min < 0
    \/ seg >= 60 /\ min <= IntMax - (seg \div 60) /\ min + (seg \div 60) < 0

\* C10: every TimePosition that exists after construction (from two ints or
\* from a string), after addition or after scalar multiplication has
\* 0 <= seconds < 60 and minutes >= 0, and a construction that would leave
\* minutes or seconds negative after normalization throws instead of
\* producing a value.
C10_TimeNormalized ==
    /\ time.ok => (0 <= time.seconds /\ time.seconds < 60 /\ time.minutes >= 0)
    /\ (/\ timeCall.op \in {"ints", "string"}
        /\ NegativeAfterCarry(timeCall.min, timeCall.seg)) => ~time.ok

\* a value exists whose seconds were carried into its minutes, after at
\* least one addition or multiplication
C10_Witness ==
    /\ time.ok /\ timeCall.op \in {"plus", "times"}
    /\ time.minutes > 0 /\ timeOps = MaxTimeOps

\* C11: for every normalized TimePosition (m, s), rendering it with toString
\* and parsing the text with the string constructor gives a value with
\* exactly the same minutes and seconds.
C11_ToStringRoundTrip ==
    timeCall.op = "reparse" =>
        /\ time.ok
        /\ time.minutes = timeCall.min /\ time.seconds = timeCall.seg

\* a value with minutes and with seconds below 10 (printed with the padding
\* zero) has been printed and parsed back
C11_Witness ==
    /\ timeCall.op = "reparse" /\ time.ok
    /\ time.minutes > 9 /\ time.seconds > 0 /\ time.seconds < 10

\* C12: normalizing an already normalized TimePosition leaves it unchanged,
\* and TimePosition("10:75") has minutes = 11 and seconds = 15: the whole
\* minute is carried out of the seconds.
C12_NormalizeIdempotent ==
    /\ timeCall.op = "normalize" =>
        /\ time.ok
        /\ time.minutes = timeCall.min /\ time.seconds = timeCall.seg
    /\ timeCall = [op |-> "string", min |-> 10, seg |-> 75] =>
        time = [ok |-> TRUE, minutes |-> 11, seconds |-> 15]

\* the value parsed from "10:75" has been normalized once more
C12_Witness ==
    /\ timeCall = [op |-> "normalize", min |-> 11, seg |-> 15]
    /\ time = [ok |-> TRUE, minutes |-> 11, seconds |-> 15]

---------------------------------------------------------------------------
(* Properties of the parser.                                               *)

\* C13: parseProgram terminates on every token sequence of tokenize and
\* finishes the whole token stream: when it has returned, every token up to
\* the final EndOfProgram has been consumed by a statement or discarded by
\* synchronize, so pos stands behind the last token.
C13_ParseProgramConsumesAll ==
    parsePc \in {"parsed", "done"} => pos = Len(tokens)

\* the diagnostics of type type recorded by the step
NewErrors(type) ==
    {k \in (Len(perrors) + 1)..Len(perrors') : perrors'[k].type = type}

\* one iteration of the loop of parseProgram has run to its end
StatementStep == pc = "done" /\ parsePc = "parse" /\ parsePc' = "parse"

\* C14: no exception leaves a statement production: every statement
\* parseProgram starts appends one node to the Program, and a let whose
\* right-hand side fails to evaluate (unknown identifier, type error)
\* appends an Error node.
C14_FailureYieldsErrorNode ==
    [][StatementStep =>
        /\ Len(root') = Len(root) + 1
        /\ (NewErrors("UnknownIdentifier") \cup NewErrors("TypeError") # {}
                => root'[Len(root')].command = ErrorCmd)]_vars

\* node is well formed: a let has an expression, an if guards a well-formed
\* statement that is not an error node
RECURSIVE WellFormed(_)
WellFormed(node) ==
    /\ node.command = LetCmd => node.expr1 # <<>>
    /\ node.command = IfCmd =>
        /\ Len(node.statements) = 1
        /\ node.statements[1].command # ErrorCmd
        /\ WellFormed(node.statements[1])

\* C15: every statement node that is not an Error node stands for tokens
\* that matched its production to the end: no diagnostic was recorded while
\* its statement was parsed, a Let node has an expression, and an If node
\* does not guard an Error node.
C15_NonErrorNodesMatched ==
    [][(StatementStep /\ Len(root') = Len(root) + 1
            /\ root'[Len(root')].command # ErrorCmd)
        => (perrors' = perrors /\ WellFormed(root'[Len(root')]))]_vars

\* the statement an if statement guards, under any number of ifs
RECURSIVE Guarded(_)
Guarded(node) ==
    IF node.command = IfCmd /\ Len(node.statements) = 1
    THEN Guarded(node.statements[1]) ELSE node

\* the tokens at pos are let <ID> = <ID> ; and the second name is unbound
UnboundReference ==
    /\ check(pos, "LET") /\ check(pos + 1, "ID") /\ check(pos + 2, "ASSIGN_OP")
    /\ check(pos + 3, "ID") /\ check(pos + 4, "SEMICOLON")
    /\ TokAt(pos + 3).value \notin DOMAIN variables

OperationCmds == {PlayCmd, FrameCmd, ConcatCmd, AudioCmd}
Operations(out) == SelectSeq(out, LAMBDA w : w.by \in OperationCmds)

\* C17: a diagnosed statement costs only its own Operation: once
\* parseAndExecute is done, the Operation of every well-formed frame, concat,
\* audio and play statement of the program has been written, whatever was
\* diagnosed in the other statements.
C17_OtherOperationsEmitted ==
    parsePc = "done" =>
        \A k \in 1..Len(root) :
            root[k].command \in OperationCmds =>
                \E j \in 1..Len(pyOut) : <<pyOut[j]>> = translateToPython(root[k])

\* let start = "00:10" frame "video.mp4" 5 to "frame5.bmp";
LetWithoutSemicolon ==
    <<"l", "e", "t", " ", "s", "t", "a", "r", "t", " ", "=", " ", QUOTE, "0",
      "0", ":", "1", "0", QUOTE, " ", "f", "r", "a", "m", "e", " ", QUOTE,
      "v", "i", "d", "e", "o", ".", "m", "p", "4", QUOTE, " ", "5", " ", "t",
      "o", " ", QUOTE, "f", "r", "a", "m", "e", "5", ".", "b", "m", "p",
      QUOTE, ";">>

\* C18: parsing let start = "00:10" without its ';', followed by a frame
\* statement, records exactly one diagnostic, an UnexpectedToken; the parser
\* resumes at the keyword frame, and the frame statement becomes a frame
\* node behind the Error node of the let.
C18_MissingSemicolonRecovers ==
    source = LetWithoutSemicolon =>
        /\ (pc = "done" /\ Len(root) = 1) =>
            /\ root[1] = ErrorNode
            /\ check(pos, "KEYWORD") /\ TokAt(pos).value = FrameCmd
        /\ parsePc \in {"parsed", "done"} =>
            /\ Len(perrors) = 1 /\ perrors[1].type = "UnexpectedToken"
            /\ Len(root) = 2 /\ root[1] = ErrorNode
            /\ root[2].command = FrameCmd
            /\ exprToString(root[2].expr2) = <<"5">>
            /\ root[2].destination
                = <<"f", "r", "a", "m", "e", "5", ".", "b", "m", "p">>

\* that program has been parsed to its end
C18_Witness ==
    /\ source = LetWithoutSemicolon /\ parsePc = "parsed"
    /\ pos = Len(tokens) /\ Len(root) = 2

\* audio "video.mp4" duration + + "00:10" to "audio.mp3";
DoubleOperator ==
    <<"a", "u", "d", "i", "o", " ", QUOTE, "v", "i", "d", "e", "o", ".", "m",
      "p", "4", QUOTE, " ", "d", "u", "r", "a", "t", "i", "o", "n", " ", "+",
      " ", "+", " ", QUOTE, "0", "0", ":", "1", "0", QUOTE, " ", "t", "o",
      " ", QUOTE, "a", "u", "d", "i", "o", ".", "m", "p", "3", QUOTE, ";">>

\* C19: the expression with two operators in a row, duration + + "00:10" of
\* that audio statement, yields an InvalidExpression diagnostic, at the
\* second operator; the statement becomes an Error node and nothing is
\* written for an audio command.
C19_DoubleOperatorRejected ==
    source = DoubleOperator =>
        /\ parsePc \in {"parsed", "done"} =>
            /\ perrors = <<ScannerError(1, 30, "InvalidExpression",
                    <<"Expected number, string, time, or identifier">>)>>
            /\ TokAt(4).type = "ADD_OP" /\ TokAt(4).charPos = 30
            /\ root = <<ErrorNode>>
        /\ \A j \in 1..Len(pyOut) : pyOut[j].by # AudioCmd

\* that program has been parsed and parseAndExecute is done
C19_Witness ==
    /\ source = DoubleOperator /\ parsePc = "done"
    /\ Len(root) = 1 /\ pos = Len(tokens)

\* both guards of the if node evaluate to Time values that are equal
GuardsEqual(node) ==
    \E ub \in UBInts :
        LET a == evaluate(node.expr1, variables, ub)
            b == evaluate(node.expr2, variables, ub)
        IN  /\ a.ok /\ b.ok
            /\ a.val.type = "TIME" /\ b.val.type = "TIME"
            /\ TimeEquals(a.val.time, b.val.time)

\* what translateToPython writes for node is in pyOut
IsWritten(node) ==
    \E j \in 1..Len(pyOut) : <<pyOut[j]>> = translateToPython(node)

\* C20: translating an If node emits the Operation of the guarded statement
\* exactly when both guards evaluate to Time values that are equal by total
\* seconds; with guards that differ, as in "00:05" == "00:06", nothing is
\* emitted for the statement and no diagnostic is recorded.
C20_IfEmitsWhenGuardsEqual ==
    (parsePc = "done" /\ perrors = <<>>) =>
        \A k \in 1..Len(root) :
            (root[k].command = IfCmd
                /\ root[k].statements[1].command \in OperationCmds)
            => (IsWritten(root[k].statements[1]) <=> GuardsEqual(root[k]))

\* the Operations a statement stands for: its own text for a command, none
\* for a let, those of the guarded statement for an if whose guards hold
RECURSIVE OperationsOf(_)
OperationsOf(node) ==
    IF node.command \in OperationCmds THEN translateToPython(node)
    ELSE IF node.command = IfCmd /\ Len(node.statements) = 1 /\ GuardsEqual(node)
    THEN OperationsOf(node.statements[1])
    ELSE <<>>

RECURSIVE OperationsFrom(_)
\* the Operations of the statements root[k], root[k + 1], ... in their order
OperationsFrom(k) ==
    IF k > Len(root) THEN <<>> ELSE OperationsOf(root[k]) \o OperationsFrom(k + 1)

\* C21: for a program parsed without a diagnostic, the Operations written
\* are those of its top-level statements that are neither a let nor an if
\* whose guard does not hold, one for each, in the order of the statements.
C21_OperationsMatchStatements ==
    (parsePc = "done" /\ perrors = <<>>) =>
        Operations(pyOut) = OperationsFrom(1)

\* the text of a value: the string, the time as toString prints it, the
\* digits of the number
ValueText(v) ==
    IF v.type = "STRING" THEN v.str
    ELSE IF v.type = "TIME" THEN toString(v.time)
    ELSE DigitsOf(v.num)

\* e refers to a variable or combines several tokens
NeedsEvaluation(e) ==
    Len(e) > 1 \/ \E j \in 1..Len(e) : e[j].type = "ID"

\* the arguments of node that are evaluated to write its Operation
Arguments(node) == {e \in {node.expr1, node.expr2, node.expr3} : e # <<>>}

\* the argument e as one token that holds the value of e
ValueOf(e, ub) ==
    IF e = <<>> \/ ~NeedsEvaluation(e) THEN e
    ELSE <<Token("STRING", ValueText(evaluate(e, variables, ub).val), 0, 0)>>

\* node with every argument replaced by its value
Resolved(node, ub) ==
    [node EXCEPT !.expr1 = ValueOf(node.expr1, ub),
                 !.expr2 = ValueOf(node.expr2, ub),
                 !.expr3 = ValueOf(node.expr3, ub)]

\* C22: translation resolves the arguments of play, frame, concat and audio:
\* an identifier appears in the written Operation as the value bound to it
\* (after let v = "a.mp4"; the statement play v; is written with a.mp4), and
\* an expression of several tokens appears as its value, not as its tokens.
C22_ArgumentsResolved ==
    (parsePc = "done" /\ perrors = <<>>) =>
        \A k \in 1..Len(root) : \A ub \in UBInts :
            (/\ root[k].command \in OperationCmds
             /\ \E e \in Arguments(root[k]) : NeedsEvaluation(e)
             /\ \A e \in Arguments(root[k]) : evaluate(e, variables, ub).ok)
            => IsWritten(Resolved(root[k], ub))

\* the frame-number expression of node evaluates, and not to a Number
FrameNumberNotNumber(node) ==
    /\ node.command = FrameCmd
    /\ \E ub \in UBInts :
        LET n == evaluate(node.expr2, variables, ub)
        IN  n.ok /\ n.val.type # "NUMBER"

\* an argument of node is an identifier that is not bound
UnboundArgument(node) ==
    \E e \in Arguments(node) :
        \E j \in 1..Len(e) : e[j].type = "ID" /\ e[j].value \notin DOMAIN variables

\* a diagnostic of that type has been recorded
Diagnosed(type) == \E j \in 1..Len(perrors) : perrors[j].type = type

\* C23: translation checks the values of a command's arguments: a frame
\* statement whose frame number evaluates to a Text or a Time yields a
\* TypeError diagnostic, a command with an unbound identifier as argument
\* yields an UnknownIdentifier diagnostic, and in both cases no Operation is
\* written for the statement.
C23_ArgumentsValidated ==
    parsePc = "done" =>
        \A k \in 1..Len(root) :
            /\ FrameNumberNotNumber(root[k]) =>
                    Diagnosed("TypeError") /\ ~IsWritten(root[k])
            /\ (root[k].command \in OperationCmds /\ UnboundArgument(root[k])) =>
                    Diagnosed("UnknownIdentifier") /\ ~IsWritten(root[k])

\* the types of token at which synchronize stops without consuming
RecoveryTypes == {"LET", "IF", "KEYWORD", "EOP"}

\* synchronize, called at token p, returns at q having consumed p .. q - 1
RecoversAt(p, q) ==
    /\ p <= q /\ q <= Len(tokens)
    /\ \/ q > p /\ TokAt(q - 1).type = "SEMICOLON"
       \/ q < Len(tokens) /\ TokAt(q).type \in RecoveryTypes
    /\ \A j \in p..(q - 1) : TokAt(j).type \notin RecoveryTypes
    /\ \A j \in p..(q - 2) : TokAt(j).type # "SEMICOLON"

\* C24: synchronize discards tokens only up to the first recovery point:
\* called at any token of a scanned program, it returns either just behind a
\* Semicolon it consumed or at a Let, If, Keyword or EndOfProgram token; it
\* consumes none of these four and nothing behind the first Semicolon.
C24_SynchronizeStopsAtRecoveryPoint ==
    pc = "done" =>
        \A p \in 0..(Len(tokens) - 1) : RecoversAt(p, synchronize(p))

\* the parser stands where synchronize returned after discarding several
\* tokens of a diagnosed statement, the last of them a Semicolon
C24_Witness ==
    /\ pc = "done" /\ parsePc = "parse" /\ perrors # <<>>
    /\ \E p \in 0..(pos - 3) :
        /\ synchronize(p) = pos
        /\ TokAt(pos - 1).type = "SEMICOLON"
        /\ RecoversAt(p, pos)
        /\ perrors[Len(perrors)].line = TokAt(p).line
        /\ perrors[Len(perrors)].charPos = TokAt(p).charPos

\* statements that are diagnosed: a production fails, or evaluate throws
MalformedStatements ==
    \* let x = "00:10"
    {<<"l", "e", "t", " ", "x", " ", "=", " ", QUOTE, "0", "0", ":", "1",
       "0", QUOTE>>,
    \* let x = ;
     <<"l", "e", "t", " ", "x", " ", "=", " ", ";">>,
    \* ;
     <<";">>,
    \* audio "v" x + + "00:10" to "o";
     <<"a", "u", "d", "i", "o", " ", QUOTE, "v", QUOTE, " ", "x", " ", "+",
       " ", "+", " ", QUOTE, "0", "0", ":", "1", "0", QUOTE, " ", "t", "o",
       " ", QUOTE, "o", QUOTE, ";">>,
    \* if "a" == "a" then foo;
     <<"i", "f", " ", QUOTE, "a", QUOTE, " ", "=", "=", " ", QUOTE, "a",
       QUOTE, " ", "t", "h", "e", "n", " ", "f", "o", "o", ";">>,
    \* play "v" "00:01";
     <<"p", "l", "a", "y", " ", QUOTE, "v", QUOTE, " ", QUOTE, "0", "0", ":",
       "0", "1", QUOTE, ";">>,
    \* frame "v" 5 "f";
     <<"f", "r", "a", "m", "e", " ", QUOTE, "v", QUOTE, " ", "5", " ", QUOTE,
       "f", QUOTE, ";">>,
    \* play (x;
     <<"p", "l", "a", "y", " ", "(", "x", ";">>,
    \* if x then
     <<"i", "f", " ", "x", " ", "t", "h", "e", "n">>,
    \* let y = x;
     <<"l", "e", "t", " ", "y", " ", "=", " ", "x", ";">>,
    \* let x = "a" + ( ; ) ;
     <<"l", "e", "t", " ", "x", " ", "=", " ", QUOTE, "a", QUOTE, " ", "+",
       " ", "(", " ", ";", " ", ")", " ", ";">>}

\* well-formed statements, each with the command of the node it parses into
FollowingStatements ==
    \* let x = "00:10";
    {[text |-> <<"l", "e", "t", " ", "x", " ", "=", " ", QUOTE, "0", "0", ":", "1",
           "0", QUOTE, ";">>,
      command |-> LetCmd],
    \* play "v";
     [text |-> <<"p", "l", "a", "y", " ", QUOTE, "v", QUOTE, ";">>,
      command |-> PlayCmd],
    \* frame "v" 5 to "f";
     [text |-> <<"f", "r", "a", "m", "e", " ", QUOTE, "v", QUOTE, " ", "5", " ",
           "t", "o", " ", QUOTE, "f", QUOTE, ";">>,
      command |-> FrameCmd],
    \* concat "v" "w" to "o";
     [text |-> <<"c", "o", "n", "c", "a", "t", " ", QUOTE, "v", QUOTE, " ", QUOTE,
           "w", QUOTE, " ", "t", "o", " ", QUOTE, "o", QUOTE, ";">>,
      command |-> ConcatCmd],
    \* if "00:05" == "00:05" then play "v";
     [text |-> <<"i", "f", " ", QUOTE, "0", "0", ":", "0", "5", QUOTE, " ", "=",
           "=", " ", QUOTE, "0", "0", ":", "0", "5", QUOTE, " ", "t", "h",
           "e", "n", " ", "p", "l", "a", "y", " ", QUOTE, "v", QUOTE, ";">>,
      command |-> IfCmd]}

\* parseProgram is over: it returned, or it ran into undefined behaviour
ParsingOver == parsePc \in {"parsed", "done", "undefined"}

\* C25: a malformed statement never costs the well-formed statement behind
\* it: when a diagnosed statement is followed by a well-formed statement that
\* starts with let, if or a command keyword, the following statement is parsed
\* into its own node, whichever production failed in the malformed one,
\* failures inside parentheses and a let whose evaluation throws included.
C25_FollowingStatementParsed ==
    \A a \in MalformedStatements : \A b \in FollowingStatements :
        (source = a \o <<" ">> \o b.text /\ ParsingOver) =>
            /\ root # <<>>
            /\ root[Len(root)].command = b.command
            /\ Guarded(root[Len(root)]).command # ErrorCmd

\* the index of the first EOP token of a scanned program
FirstEndOfProgram ==
    CHOOSE p \in 0..(Len(tokens) - 1) :
        /\ TokAt(p).type = "EOP"
        /\ \A j \in 0..(p - 1) : TokAt(j).type # "EOP"

\* C26: on a token sequence that ends with EOP the position of the parser
\* never passes the first EOP token while statements are parsed, so every
\* read of tokens[pos] (for a diagnostic, in parseStatement, for the name
\* in parseAssign, for the command word and the destination in
\* parseCommand) is within the bounds of the token vector.
C26_PositionWithinTokens ==
    (pc = "done" /\ parsePc \in {"parse", "undefined"}) =>
        /\ ~oob
        /\ pos <= FirstEndOfProgram
        /\ FirstEndOfProgram < Len(tokens)

\* a statement was diagnosed at the first EOP token itself: tokens[pos] was
\* read there for the diagnostic, and the parser stands at that token
C26_Witness ==
    /\ pc = "done" /\ parsePc = "parse" /\ ~oob
    /\ pos > 0 /\ pos = FirstEndOfProgram
    /\ perrors # <<>>
    /\ perrors[Len(perrors)].line = TokAt(pos).line
    /\ perrors[Len(perrors)].charPos = TokAt(pos).charPos

\* e is empty, or atoms at the even indices 0, 2, ... with '+' or '*'
\* between them: odd length and no parenthesis
Alternating(e) ==
    \/ e = <<>>
    \/ /\ Len(e) % 2 = 1
       /\ \A j \in 1..Len(e) :
            IF j % 2 = 1 THEN e[j].type \in {"INT", "STRING", "TIME", "ID"}
            ELSE e[j].type \in {"ADD_OP", "MUL_OP"}

RECURSIVE ExpressionsAlternate(_)
\* the expressions of node and of the statement it guards
ExpressionsAlternate(node) ==
    /\ Alternating(node.expr1) /\ Alternating(node.expr2)
    /\ Alternating(node.expr3)
    /\ \A j \in 1..Len(node.statements) : ExpressionsAlternate(node.statements[j])

\* the parser stands at let <ID> = , where parseAssign calls parseExpression
AtRightHandSide ==
    /\ parsePc = "parse"
    /\ check(pos, "LET") /\ check(pos + 1, "ID") /\ check(pos + 2, "ASSIGN_OP")

\* C27: every non-empty token list that parseExpression returns, and so every
\* expression passed to evaluate, has odd length with atoms at the positions
\* 0, 2, ... and '+' or '*' at 1, 3, ..., and holds no parenthesis, so the
\* read of expr[i + 1] in evaluate is always in range, also after an error
\* inside a parenthesised sub-expression.
C27_ExpressionsAlternate ==
    pc = "done" =>
        /\ parsePc # "undefined"
        /\ AtRightHandSide =>
                Alternating(parseExpression([ParserState EXCEPT !.pos = pos + 3]).expr)
        /\ \A k \in 1..Len(root) : ExpressionsAlternate(root[k])

===========================================================================
